---- MODULE Spec2Model ----
(***************************************************************************)
(* A model of RedisClient (src/src/lib.rs): one client object that owns a   *)
(* redis::Client and one redis::Connection, the command bindings that       *)
(* forward to the connection, and the three result translators              *)
(* (redis_to_napi, redis_to_napi_optional, redis_err_to_napi_err).           *)
(*                                                                         *)
(* The redis server and the redis crate are the environment of the code:   *)
(* the server is a keyspace with typed entries, the crate turns a reply    *)
(* into a RedisResult<T> through FromRedisValue.  Both are modelled by     *)
(* what they do, so that a reply of the wrong shape, an error reply or a   *)
(* broken transport reaches the translators exactly as it does in the code.*)
(***************************************************************************)
EXTENDS Integers, Sequences, FiniteSets, TLC

\* ------------------------------------------------------------------ bounds

MaxList == 2            \* longest list the server holds

Keys   == {"k", "j"}
Values == {"", "a"}      \* the empty string is a value like any other
Fields == {"f", "g"}

\* Only string commands are aimed at the second key: it is there to be
\* written and read while the first one is watched.
TypedKeys == {"k"}
LifeKeys  == {"k"}

\* What the server may do with one round trip instead of running the
\* command: nothing of the kind, or refuse it with an error reply whatever the
\* command is (authentication required, dataset still loading).
Faults == {"none", "NOAUTH", "LOADING"}
NoFaults == {"none"}

\* ---------------------------------------------------------- redis values

Nil        == [tag |-> "Nil"]
Okay       == [tag |-> "Okay"]
Data(s)    == [tag |-> "Data", s |-> s]
Status(s)  == [tag |-> "Status", s |-> s]
IntV(n)     == [tag |-> "Int", n |-> n]
Bulk(xs)   == [tag |-> "Bulk", items |-> xs]
ErrReply(code) == [tag |-> "Error", code |-> code]

\* ----------------------------------------------------------- the server

None == [type |-> "none"]
Str(v)   == [type |-> "string", s |-> v]
Hash(h)  == [type |-> "hash", h |-> h]
List(l)  == [type |-> "list", l |-> l]
Set(m)   == [type |-> "set", m |-> m]

RECURSIVE Reverse(_)
Reverse(s) == IF s = << >> THEN << >> ELSE Append(Reverse(Tail(s)), Head(s))

RECURSIVE Flatten(_, _)
\* HGETALL's reply: field, value, field, value, ... in the server's order
Flatten(h, D) ==
  IF D = {} THEN << >>
  ELSE LET x == CHOOSE y \in D : TRUE
       IN  <<Data(x), Data(h[x])>> \o Flatten(h, D \ {x})

RECURSIVE KeyList(_, _)
KeyList(st, D) ==
  IF D = {} THEN << >>
  ELSE LET x == CHOOSE y \in D : TRUE
       IN  (IF st[x].type = "none" THEN << >> ELSE <<Data(x)>>) \o KeyList(st, D \ {x})

RECURSIVE DelAll(_, _)
\* DEL k1 k2 ...: <<store, number of keys removed>>
DelAll(st, ks) ==
  IF ks = << >> THEN [st |-> st, n |-> 0]
  ELSE LET k == Head(ks)
           hit == k \in DOMAIN st /\ st[k].type # "none"
           rest == DelAll(IF hit THEN [st EXCEPT ![k] = None] ELSE st, Tail(ks))
       IN  [st |-> rest.st, n |-> rest.n + (IF hit THEN 1 ELSE 0)]

Out(st, vol, rep) == [st |-> st, vol |-> vol, rep |-> rep]

WrongType == ErrReply("WRONGTYPE")

\* What the server does with one command: the new keyspace, the new set of
\* keys with a time to live, and the reply.
Exec(st, vol, cmd) ==
  LET name == cmd[1]
      n    == Len(cmd)
      k    == cmd[2]
      e    == st[k]
  IN
  CASE name = "TYPE" /\ n = 2 -> Out(st, vol, Status(e.type))
    [] name = "GET" /\ n = 2 ->
         IF e.type = "none" THEN Out(st, vol, Nil)
         ELSE IF e.type = "string" THEN Out(st, vol, Data(e.s))
         ELSE Out(st, vol, WrongType)
    [] name = "SET" /\ n = 3 ->
         Out([st EXCEPT ![k] = Str(cmd[3])], vol \ {k}, Okay)
    [] name = "LPUSH" /\ n = 3 ->
         IF cmd[3] = << >> THEN Out(st, vol, ErrReply("ERR"))
         ELSE IF e.type \notin {"none", "list"} THEN Out(st, vol, WrongType)
         ELSE LET old == IF e.type = "list" THEN e.l ELSE << >>
                  new == Reverse(cmd[3]) \o old
              IN  Out([st EXCEPT ![k] = List(new)], vol, IntV(Len(new)))
    [] name = "LPOP" /\ n = 2 ->
         IF e.type = "none" THEN Out(st, vol, Nil)
         ELSE IF e.type # "list" THEN Out(st, vol, WrongType)
         ELSE IF Len(e.l) = 1 THEN Out([st EXCEPT ![k] = None], vol \ {k}, Data(e.l[1]))
         ELSE Out([st EXCEPT ![k] = List(Tail(e.l))], vol, Data(e.l[1]))
    [] name = "LPOP" /\ n = 3 ->
         IF e.type = "none" THEN Out(st, vol, Nil)
         ELSE IF e.type # "list" THEN Out(st, vol, WrongType)
         ELSE LET c == IF cmd[3] < Len(e.l) THEN cmd[3] ELSE Len(e.l)
                  popped == [i \in 1..c |-> Data(e.l[i])]
                  left == SubSeq(e.l, c + 1, Len(e.l))
              IN  IF left = << >> THEN Out([st EXCEPT ![k] = None], vol \ {k}, Bulk(popped))
                  ELSE Out([st EXCEPT ![k] = List(left)], vol, Bulk(popped))
    [] name = "HSET" /\ n = 4 ->
         IF e.type \notin {"none", "hash"} THEN Out(st, vol, WrongType)
         ELSE LET old == IF e.type = "hash" THEN e.h ELSE << >>
                  f == cmd[3]
                  new == [x \in DOMAIN old \cup {f} |-> IF x = f THEN cmd[4] ELSE old[x]]
              IN  Out([st EXCEPT ![k] = Hash(new)], vol,
                      IntV(IF f \in DOMAIN old THEN 0 ELSE 1))
    [] name = "HGET" /\ n = 3 ->
         IF e.type = "none" THEN Out(st, vol, Nil)
         ELSE IF e.type # "hash" THEN Out(st, vol, WrongType)
         ELSE IF cmd[3] \in DOMAIN e.h THEN Out(st, vol, Data(e.h[cmd[3]]))
         ELSE Out(st, vol, Nil)
    [] name = "HGETALL" /\ n = 2 ->
         IF e.type = "none" THEN Out(st, vol, Bulk(<< >>))
         ELSE IF e.type # "hash" THEN Out(st, vol, WrongType)
         ELSE Out(st, vol, Bulk(Flatten(e.h, DOMAIN e.h)))
    [] name = "EXPIRE" /\ n = 3 ->
         IF e.type = "none" THEN Out(st, vol, IntV(0))
         ELSE IF cmd[3] = 0 THEN Out([st EXCEPT ![k] = None], vol \ {k}, IntV(1))
         ELSE Out(st, vol \cup {k}, IntV(1))
    [] name = "DEL" /\ n = 2 ->
         IF cmd[2] = << >> THEN Out(st, vol, ErrReply("ERR"))
         ELSE LET d == DelAll(st, cmd[2])
              IN  Out(d.st, {x \in vol : d.st[x].type # "none"}, IntV(d.n))
    [] name = "KEYS" /\ n = 2 ->
         Out(st, vol, Bulk(KeyList(st, IF cmd[2] = "*" THEN Keys ELSE Keys \cap {cmd[2]})))
    [] name = "SADD" /\ n = 3 ->
         IF e.type \notin {"none", "set"} THEN Out(st, vol, WrongType)
         ELSE LET old == IF e.type = "set" THEN e.m ELSE {}
              IN  Out([st EXCEPT ![k] = Set(old \cup {cmd[3]})], vol,
                      IntV(IF cmd[3] \in old THEN 0 ELSE 1))
    [] OTHER -> Out(st, vol, ErrReply("ERR"))

\* ------------------------------------------------- the redis crate's side

\* The kind the crate's parser gives an error reply, from its leading token:
\* the tokens it knows have kinds of their own, every other token is an
\* extension error.
ErrorKindOf(code) ==
  CASE code = "ERR" -> "ResponseError"
    [] code = "LOADING" -> "BusyLoadingError"
    [] OTHER -> "ExtensionError"

ROk(v)       == [ok |-> TRUE, val |-> v]
RErr(kind, code) == [ok |-> FALSE, kind |-> kind, code |-> code]
TypeErr == RErr("TypeError", "none")

\* FromRedisValue for String
FromValueString(v) ==
  CASE v.tag = "Data" -> ROk(v.s)
    [] v.tag = "Okay" -> ROk("OK")
    [] v.tag = "Status" -> ROk(v.s)
    [] OTHER -> TypeErr

\* FromRedisValue for ()
FromValueUnit(v) == ROk("unit")

\* FromRedisValue for u32: an integer reply is cast (the counts the server
\* replies here are non-negative and far below 2^32, so the cast keeps them),
\* a string reply is parsed (no value of Values parses as a number).
FromValueU32(v) ==
  CASE v.tag = "Int" -> ROk(v.n)
    [] OTHER -> TypeErr

RECURSIVE FromValues(_)
FromValues(items) ==
  IF items = << >> THEN ROk(<< >>)
  ELSE LET h == FromValueString(Head(items))
           t == FromValues(Tail(items))
       IN  IF ~h.ok THEN h ELSE IF ~t.ok THEN t ELSE ROk(<<h.val>> \o t.val)

\* FromRedisValue for Vec<String>.  A bulk string goes through from_byte_vec,
\* whose default gives no vector in some releases of the crate and a
\* one-element vector in others: `single` says which.
FromValueVec(v, single) ==
  CASE v.tag = "Data" -> IF single THEN ROk(<<v.s>>) ELSE TypeErr
    [] v.tag = "Bulk" -> FromValues(v.items)
    [] v.tag = "Nil" -> ROk(<< >>)
    [] OTHER -> TypeErr

RECURSIVE PairUp(_)
PairUp(items) ==
  IF Len(items) < 2 THEN ROk(<< >>)
  ELSE LET f == FromValueString(items[1])
           x == FromValueString(items[2])
           t == PairUp(SubSeq(items, 3, Len(items)))
       IN  IF ~f.ok THEN f ELSE IF ~x.ok THEN x ELSE IF ~t.ok THEN t
           ELSE ROk([y \in DOMAIN t.val \cup {f.val} |->
                       IF y \in DOMAIN t.val THEN t.val[y] ELSE x.val])

\* FromRedisValue for HashMap<String, String>
FromValueMap(v) ==
  CASE v.tag = "Bulk" -> PairUp(v.items)
    [] OTHER -> TypeErr

\* ------------------------------------------------------------ the state

VARIABLES
  store,          \* the server's keyspace: key -> entry
  volatile,       \* the keys that have a time to live
  built,          \* a RedisClient exists (new returned Ok)
  alive,          \* the transport of self.connection still reaches the server
  connOpen,       \* what self.connection.is_open() reports
  pc,             \* where the generic get is: idle, or between its two round trips
  res,            \* the last event: the operation, its inputs and what it returned
  lastW,          \* per key, the last write made to it (history)
  connectFailed   \* the last new/reconnect failed (history)

vars == <<store, volatile, built, alive, connOpen, pc, res, lastW, connectFailed>>

Idle == [at |-> "idle"]

\* napi results
Ok(v)  == [ok |-> TRUE, val |-> v]
Null   == [t |-> "Null"]
Absent == [t |-> "None"]
Some(x) == [t |-> "Some", x |-> x]
EitherA(x) == [t |-> "A", x |-> x]
EitherB(x) == [t |-> "B", x |-> x]
Plain(x)   == [t |-> "Val", x |-> x]

Event(op, key, fault, r, trips) ==
  [op |-> op, key |-> key, fault |-> fault, r |-> r, trips |-> trips]

EnvEvent == Event("env", "", "none", Ok(Null), 0)

NoWrite == [op |-> "none"]
OtherWrite == [op |-> "other"]

\* ------------------------------------------------------- the translators

Category(kind) ==
  CASE kind = "ResponseError" -> "response error"
    [] kind = "TypeError" -> "type error"
    [] kind = "IoError" -> "I/O error"
    [] kind = "ExtensionError" -> "extension error"
    [] kind = "BusyLoadingError" -> "busy loading"
    [] OTHER -> "invalid client config"

redis_err_to_napi_err(e) ==
  [ok |-> FALSE, status |-> "Cancelled", msg |-> "Redis Error", category |-> Category(e.kind),
   code |-> e.code]

redis_to_napi(result) ==
  IF result.ok THEN Ok(Plain(result.val)) ELSE redis_err_to_napi_err(result)

\* Variant: only an extension error is taken for "no value".
redis_to_napi_optional_ext(result) ==
  IF result.ok THEN Ok(Some(result.val))
  ELSE IF result.kind = "ExtensionError" THEN Ok(Absent)
  ELSE redis_err_to_napi_err(result)

\* Variant: every error is taken for "no value".
redis_to_napi_optional_all(result) ==
  IF result.ok THEN Ok(Some(result.val)) ELSE Ok(Absent)

redis_to_napi_optional(result) ==
  IF result.ok THEN Ok(Some(result.val))
  ELSE IF result.kind \in {"TypeError", "ExtensionError"} THEN Ok(Absent)
  ELSE redis_err_to_napi_err(result)

FieldTypeUnknown ==
  [ok |-> FALSE, status |-> "Unknown", msg |-> "field type unknown", category |-> "",
   code |-> ""]

\* -------------------------------------------------------- one round trip

\* cmd.query(&mut self.connection): the command is written to the transport
\* and one reply is read.  On a transport that is down the server is not
\* reached, the query fails with an I/O error and the connection is shut; a
\* refusing server answers with its error reply.
Round(cmd, fault) ==
  IF ~alive
  THEN [served |-> FALSE, rep |-> ErrReply("io"), st |-> store, vol |-> volatile,
        up |-> FALSE, open |-> FALSE]
  ELSE IF fault # "none"
  THEN [served |-> FALSE, rep |-> ErrReply(fault), st |-> store, vol |-> volatile,
        up |-> TRUE, open |-> connOpen]
  ELSE LET x == Exec(store, volatile, cmd)
       IN  [served |-> TRUE, rep |-> x.rep, st |-> x.st, vol |-> x.vol,
            up |-> TRUE, open |-> connOpen]

\* The RedisResult<T> of a round trip: an error reply is an error of the kind
\* its token has, any other reply is converted to T.
Typed(q, T, single) ==
  IF q.rep.tag = "Error"
  THEN IF q.rep.code = "io" THEN RErr("IoError", "none")
       ELSE RErr(ErrorKindOf(q.rep.code), q.rep.code)
  ELSE CASE T = "String" -> FromValueString(q.rep)
         [] T = "Unit" -> FromValueUnit(q.rep)
         [] T = "U32" -> FromValueU32(q.rep)
         [] T = "Vec" -> FromValueVec(q.rep, single)
         [] T = "Map" -> FromValueMap(q.rep)

Touched(q, j) == q.st[j] # store[j] \/ (j \in q.vol) # (j \in volatile)

\* The history of writes after a round trip: `note` is recorded for `key`
\* when the server executed the command, any other key whose entry changed
\* has had some other write.
Noted(q, key, note) ==
  [j \in Keys |->
     IF j = key /\ q.served /\ note # NoWrite THEN note
     ELSE IF Touched(q, j) THEN OtherWrite
     ELSE lastW[j]]

\* The state after a command that made one round trip and returned r.
Finish(op, key, fault, q, r, note) ==
  /\ store' = q.st
  /\ volatile' = q.vol
  /\ alive' = q.up
  /\ connOpen' = q.open
  /\ res' = Event(op, key, fault, r, 1)
  /\ lastW' = Noted(q, key, note)
  /\ UNCHANGED <<built, pc, connectFailed>>

Ready == built /\ pc.at = "idle"

\* --------------------------------------------------- connection lifecycle

Urls == {"redis://host", "not a url"}

\* redis::Client::open(url)
ClientOpen(url) ==
  IF url = "redis://host" THEN ROk("client") ELSE RErr("InvalidClientConfig", "none")

\* client.get_connection(): `up` says whether the server accepts a new
\* connection now.
get_connection(up) == IF up THEN ROk("connection") ELSE RErr("IoError", "none")

\* RedisClient::new
New ==
  \E url \in Urls, up \in BOOLEAN :
    LET client == ClientOpen(url)
        connection == get_connection(up)
        made == client.ok /\ connection.ok
    IN  /\ ~built
        /\ built' = made
        /\ alive' = made
        /\ connOpen' = made
        /\ connectFailed' = ~made
        /\ res' = Event("new", "", "none",
                        IF ~client.ok THEN redis_err_to_napi_err(client)
                        ELSE IF ~connection.ok THEN redis_err_to_napi_err(connection)
                        ELSE Ok(Null), 0)
        /\ UNCHANGED <<store, volatile, pc, lastW>>

\* Variant: the fresh connection is dropped, the old one kept.
ReconnectConnKept(c) == [up |-> alive, open |-> connOpen]

\* The connection the client holds when reconnect returns: the fresh one when
\* get_connection gave one, the one it held before otherwise.
ReconnectConn(c) ==
  IF c.ok THEN [up |-> TRUE, open |-> TRUE] ELSE [up |-> alive, open |-> connOpen]

\* RedisClient::reconnect.  Its event records, as the fault it met, whether
\* the connection held before was broken.
Reconnect ==
  \E up \in BOOLEAN :
    LET c == get_connection(up)
        conn == ReconnectConn(c)
    IN  /\ Ready
        /\ alive' = conn.up
        /\ connOpen' = conn.open
        /\ connectFailed' = ~c.ok
        /\ res' = Event("reconnect", "", IF alive THEN "none" ELSE "broken",
                        IF c.ok THEN Ok(Null) ELSE redis_err_to_napi_err(c), 0)
        /\ UNCHANGED <<store, volatile, built, pc, lastW>>

\* RedisClient::connection_open
ConnectionOpen ==
  /\ Ready
  /\ res' = Event("connection_open", "", "none", Ok(Plain(connOpen)), 0)
  /\ UNCHANGED <<store, volatile, built, alive, connOpen, pc, lastW, connectFailed>>

\* ------------------------------------------------------- the generic get

\* Variant: the match has no arm of its own for the other tags, which fall
\* into the string arm.
GetArmFallThrough(field_type) ==
  CASE field_type = "none" -> "null"
    [] field_type = "hash" -> "hgetall"
    [] OTHER -> "get"

\* The arm of get's match that a type tag selects.
GetArm(field_type) ==
  CASE field_type = "none" -> "null"
    [] field_type = "string" -> "get"
    [] field_type = "hash" -> "hgetall"
    [] OTHER -> "unknown"

\* get, first round trip: TYPE key, and the arms that need no second one.
GetProbe(K, F) ==
  \E key \in K, fault \in F :
    LET q == Round(<<"TYPE", key>>, fault)
        field_type == Typed(q, "String", FALSE)
        arm == IF field_type.ok THEN GetArm(field_type.val) ELSE "error"
    IN  /\ Ready
        /\ store' = q.st
        /\ volatile' = q.vol
        /\ alive' = q.up
        /\ connOpen' = q.open
        /\ lastW' = Noted(q, key, NoWrite)
        /\ pc' = IF arm \in {"get", "hgetall"}
                 THEN [at |-> "fetch", key |-> key, arm |-> arm]
                 ELSE Idle
        /\ res' = CASE arm = "error" ->
                         Event("get", key, fault, redis_err_to_napi_err(field_type), 1)
                    [] arm = "null" -> Event("get", key, fault, Ok(Null), 1)
                    [] arm = "unknown" -> Event("get", key, fault, FieldTypeUnknown, 1)
                    [] OTHER -> Event("get.type", key, fault, Ok(Plain(field_type.val)), 1)
        /\ UNCHANGED <<built, connectFailed>>

\* Variant: the string arm translates like cmd_get does, a reply of the wrong
\* shape being no value.
GetStringArmCollapse(val) ==
  IF val.ok THEN Ok(EitherA(val.val))
  ELSE IF val.kind \in {"TypeError", "ExtensionError"} THEN Ok(Null)
  ELSE redis_err_to_napi_err(val)

\* The "string" arm of get's match
GetStringArm(val) ==
  IF val.ok THEN Ok(EitherA(val.val)) ELSE redis_err_to_napi_err(val)

\* The "hash" arm of get's match
GetHashArm(val) ==
  IF val.ok THEN Ok(EitherB(val.val)) ELSE redis_err_to_napi_err(val)

\* get, second round trip: GET key or HGETALL key, on the keyspace as it is
\* by then.
GetFetch(F) ==
  \E fault \in F :
    LET key == pc.key
        q == IF pc.arm = "get" THEN Round(<<"GET", key>>, fault)
             ELSE Round(<<"HGETALL", key>>, fault)
        val == IF pc.arm = "get" THEN Typed(q, "String", FALSE) ELSE Typed(q, "Map", FALSE)
    IN  /\ built
        /\ pc.at = "fetch"
        /\ store' = q.st
        /\ volatile' = q.vol
        /\ alive' = q.up
        /\ connOpen' = q.open
        /\ lastW' = Noted(q, key, NoWrite)
        /\ pc' = Idle
        /\ res' = Event("get", key, fault,
                        IF pc.arm = "get" THEN GetStringArm(val) ELSE GetHashArm(val), 2)
        /\ UNCHANGED <<built, connectFailed>>

\* ------------------------------------------------------ command bindings

RawCmds(K) ==
  {<<"GET", k>> : k \in K} \cup {<<"SADD", k, "a">> : k \in K} \cup {<<"BOGUS">>}

RawKey(args) == IF Len(args) >= 2 /\ args[2] \in Keys THEN args[2] ELSE ""

\* execute: Cmd::new().arg(args).query(&mut self.connection)
execute(args, fault) == Round(args, fault)

expect_string(K, F) ==
  \E args \in RawCmds(K), fault \in F :
    LET q == execute(args, fault)
    IN  Ready /\ Finish("expect_string", RawKey(args), fault, q,
                        redis_to_napi(Typed(q, "String", FALSE)), NoWrite)

expect_array(K, F) ==
  \E args \in RawCmds(K), fault \in F, single \in BOOLEAN :
    LET q == execute(args, fault)
    IN  Ready /\ (single => q.rep.tag = "Data")
              /\ Finish("expect_array", RawKey(args), fault, q,
                        redis_to_napi(Typed(q, "Vec", single)), NoWrite)

expect_integer(K, F) ==
  \E args \in RawCmds(K), fault \in F :
    LET q == execute(args, fault)
    IN  Ready /\ Finish("expect_integer", RawKey(args), fault, q,
                        redis_to_napi(Typed(q, "U32", FALSE)), NoWrite)

expect_nil(K, F) ==
  \E args \in RawCmds(K), fault \in F :
    LET q == execute(args, fault)
    IN  Ready /\ Finish("expect_nil", RawKey(args), fault, q,
                        redis_to_napi(Typed(q, "Unit", FALSE)), NoWrite)

cmd_get(K, F) ==
  \E key \in K, fault \in F :
    LET q == Round(<<"GET", key>>, fault)
    IN  Ready /\ Finish("cmdGET", key, fault, q,
                        redis_to_napi_optional(Typed(q, "String", FALSE)), NoWrite)

\* Variant: the key is sent where the value belongs.
SetCmdSwapped(key, value) == <<"SET", key, key>>

\* The command cmd_set sends.
SetCmd(key, value) == <<"SET", key, value>>

cmd_set(K, F) ==
  \E key \in K, value \in Values, fault \in F :
    LET q == Round(SetCmd(key, value), fault)
        r == redis_to_napi(Typed(q, "Unit", FALSE))
    IN  Ready /\ Finish("cmdSET", key, fault, q, r,
                        [op |-> "SET", s |-> value, ok |-> r.ok])

PushLists == {<< >>, <<"a">>, <<"", "a">>}

cmd_lpush(K, F) ==
  \E key \in K, value \in PushLists, fault \in F :
    LET q == Round(<<"LPUSH", key, value>>, fault)
    IN  /\ Ready
        /\ Len(value) + (IF store[key].type = "list" THEN Len(store[key].l) ELSE 0) <= MaxList
        /\ Finish("cmdLPUSH", key, fault, q, redis_to_napi(Typed(q, "Unit", FALSE)), NoWrite)

\* NonZeroUsize::new(count): no count argument when count is 0
LpopCmd(key, count) == IF count = 0 THEN <<"LPOP", key>> ELSE <<"LPOP", key, count>>

cmd_lpop(K, F) ==
  \E key \in K, count \in 0..MaxList, fault \in F, single \in BOOLEAN :
    LET q == Round(LpopCmd(key, count), fault)
    IN  Ready /\ (single => q.rep.tag = "Data")
              /\ Finish("cmdLPOP", key, fault, q,
                        redis_to_napi_optional(Typed(q, "Vec", single)), NoWrite)

\* Variant: field and value change places.
HsetCmdSwapped(key, field, value) == <<"HSET", key, value, field>>

\* The command cmd_hset sends.
HsetCmd(key, field, value) == <<"HSET", key, field, value>>

cmd_hset(K, F) ==
  \E key \in K, field \in Fields, value \in Values, fault \in F :
    LET q == Round(HsetCmd(key, field, value), fault)
        r == redis_to_napi(Typed(q, "Unit", FALSE))
    IN  Ready /\ Finish("cmdHSET", key, fault, q, r,
                        [op |-> "HSET", f |-> field, s |-> value, ok |-> r.ok])

cmd_hget(K, F) ==
  \E key \in K, field \in Fields, fault \in F :
    LET q == Round(<<"HGET", key, field>>, fault)
    IN  Ready /\ Finish("cmdHGET", key, fault, q,
                        redis_to_napi_optional(Typed(q, "String", FALSE)), NoWrite)

cmd_hgetall(K, F) ==
  \E key \in K, fault \in F :
    LET q == Round(<<"HGETALL", key>>, fault)
    IN  Ready /\ Finish("cmdHGETALL", key, fault, q,
                        redis_to_napi_optional(Typed(q, "Map", FALSE)), NoWrite)

cmd_expire(K, F) ==
  \E key \in K, seconds \in {0, 1}, fault \in F :
    LET q == Round(<<"EXPIRE", key, seconds>>, fault)
    IN  Ready /\ Finish("cmdEXPIRE", key, fault, q,
                        redis_to_napi(Typed(q, "U32", FALSE)), NoWrite)

\* Either<String, Vec<String>>: one key, or a list of keys
DelArgs(K) ==
  {<< >>} \cup {<<k>> : k \in K} \cup {p \in K \X K : p[1] # p[2]}

cmd_del(K, F) ==
  \E key \in DelArgs(K), fault \in F :
    LET q == Round(<<"DEL", key>>, fault)
    IN  Ready /\ Finish("cmdDEL", IF Len(key) = 1 THEN key[1] ELSE "", fault, q,
                        redis_to_napi(Typed(q, "U32", FALSE)), NoWrite)

cmd_keys(F) ==
  \E pattern \in {"*", "k"}, fault \in F :
    LET q == Round(<<"KEYS", pattern>>, fault)
    IN  Ready /\ Finish("cmdKEYS", "", fault, q,
                        redis_to_napi(Typed(q, "Vec", FALSE)), NoWrite)

cmd_type(K, F) ==
  \E key \in K, fault \in F :
    LET q == Round(<<"TYPE", key>>, fault)
    IN  Ready /\ Finish("cmdTYPE", key, fault, q,
                        redis_to_napi(Typed(q, "String", FALSE)), NoWrite)

\* -------------------------------------------------------- the environment

\* The server, or the network, closes the client's transport.  The client's
\* connection learns of it at its next round trip.
RemoteClose ==
  /\ built /\ alive
  /\ alive' = FALSE
  /\ res' = EnvEvent
  /\ UNCHANGED <<store, volatile, built, connOpen, pc, lastW, connectFailed>>

\* A key's time to live runs out.
Expire ==
  \E k \in volatile :
    /\ store' = [store EXCEPT ![k] = None]
    /\ volatile' = volatile \ {k}
    /\ lastW' = [lastW EXCEPT ![k] = OtherWrite]
    /\ res' = EnvEvent
    /\ UNCHANGED <<built, alive, connOpen, pc, connectFailed>>

OtherCmds(K) ==
  {<<"SET", k, "a">> : k \in K} \cup {<<"DEL", <<k>>>> : k \in K}
    \cup {<<"HSET", k, "f", "a">> : k \in K \cap TypedKeys}

\* Another client of the same server runs a command.
OtherClient(K) ==
  \E cmd \in OtherCmds(K) :
    LET x == Exec(store, volatile, cmd)
    IN  /\ store' = x.st
        /\ volatile' = x.vol
        /\ lastW' = [j \in Keys |->
                       IF x.st[j] # store[j] \/ (j \in x.vol) # (j \in volatile)
                       THEN OtherWrite ELSE lastW[j]]
        /\ res' = EnvEvent
        /\ UNCHANGED <<built, alive, connOpen, pc, connectFailed>>

\* ---------------------------------------------------------- specification

\* The commands and the keyspace, on a client whose connection stays up:
\* the state after new returned Ok.
Init ==
  /\ store = [k \in Keys |-> None]
  /\ volatile = {}
  /\ built = TRUE
  /\ alive = TRUE
  /\ connOpen = TRUE
  /\ pc = Idle
  /\ res = Event("new", "", "none", Ok(Null), 0)
  /\ lastW = [k \in Keys |-> NoWrite]
  /\ connectFailed = FALSE

Next ==
  \/ ConnectionOpen
  \/ GetProbe(Keys, Faults)
  \/ GetFetch(Faults)
  \/ expect_string(TypedKeys, Faults)
  \/ expect_array(TypedKeys, Faults)
  \/ expect_integer(TypedKeys, Faults)
  \/ expect_nil(TypedKeys, Faults)
  \/ cmd_get(Keys, Faults)
  \/ cmd_set(Keys, Faults)
  \/ cmd_lpush(TypedKeys, Faults)
  \/ cmd_lpop(TypedKeys, Faults)
  \/ cmd_hset(TypedKeys, Faults)
  \/ cmd_hget(TypedKeys, Faults)
  \/ cmd_hgetall(Keys, Faults)
  \/ cmd_expire(TypedKeys, Faults)
  \/ cmd_del(Keys, Faults)
  \/ cmd_keys(Faults)
  \/ cmd_type(Keys, Faults)
  \/ Expire
  \/ OtherClient(Keys)

Spec == Init /\ [][Next]_vars

\* The life of the connection: from before new, with a transport that the
\* server may close and a server that may refuse a new connection.
InitLife ==
  /\ store = [k \in Keys |-> None]
  /\ volatile = {}
  /\ built = FALSE
  /\ alive = FALSE
  /\ connOpen = FALSE
  /\ pc = Idle
  /\ res = EnvEvent
  /\ lastW = [k \in Keys |-> NoWrite]
  /\ connectFailed = FALSE

NextLife ==
  \/ New
  \/ Reconnect
  \/ ConnectionOpen
  \/ RemoteClose
  \/ GetProbe(LifeKeys, NoFaults)
  \/ GetFetch(NoFaults)
  \/ expect_string(LifeKeys, NoFaults)
  \/ expect_array(LifeKeys, NoFaults)
  \/ expect_integer(LifeKeys, NoFaults)
  \/ expect_nil(LifeKeys, NoFaults)
  \/ cmd_get(LifeKeys, NoFaults)
  \/ cmd_set(LifeKeys, NoFaults)
  \/ cmd_lpush(LifeKeys, NoFaults)
  \/ cmd_lpop(LifeKeys, NoFaults)
  \/ cmd_hset(LifeKeys, NoFaults)
  \/ cmd_hget(LifeKeys, NoFaults)
  \/ cmd_hgetall(LifeKeys, NoFaults)
  \/ cmd_expire(LifeKeys, NoFaults)
  \/ cmd_del(LifeKeys, NoFaults)
  \/ cmd_keys(NoFaults)
  \/ cmd_type(LifeKeys, NoFaults)
  \/ Expire
  \/ OtherClient(LifeKeys)

SpecLife == InitLife /\ [][NextLife]_vars

\* ------------------------------------------------------------ properties

Readers == {"cmdGET", "cmdLPOP", "cmdHGET", "cmdHGETALL"}

CommandOps ==
  {"get", "get.type", "expect_string", "expect_array", "expect_integer", "expect_nil",
   "cmdGET", "cmdSET", "cmdLPUSH", "cmdLPOP", "cmdHSET", "cmdHGET", "cmdHGETALL",
   "cmdEXPIRE", "cmdDEL", "cmdKEYS", "cmdTYPE"}

\* The last event is operation `op` on key k, served by the server.
Served(op, k) == res.op = op /\ res.key = k /\ res.fault = "none"

\* C1: when the last write to a key is a cmdSET of v, a cmdGET of the key
\* returns Some(v) and the generic get returns the string variant holding v,
\* after its second round trip.
C1_SetThenGet ==
  \A k \in Keys :
    (lastW[k].op = "SET" /\ lastW[k].ok) =>
      /\ Served("cmdGET", k) => res.r = Ok(Some(lastW[k].s))
      /\ Served("get", k) => res.r = Ok(EitherA(lastW[k].s)) /\ res.trips = 2

C1_Witness ==
  /\ lastW["k"].op = "SET" /\ lastW["k"].s = ""
  /\ Served("get", "k")
  /\ res.r = Ok(EitherA(""))
  /\ store["j"].type = "string"

\* C2: a key that no operation has written reads as absent: the generic get
\* returns Null after one round trip and cmdGET returns None, neither an error.
C2_NeverSetIsAbsent ==
  \A k \in Keys :
    lastW[k].op = "none" =>
      /\ Served("get", k) => res.r = Ok(Null) /\ res.trips = 1
      /\ Served("cmdGET", k) => res.r = Ok(Absent)

C2_Witness ==
  /\ lastW["k"].op = "none"
  /\ store["j"].type = "string"
  /\ Served("cmdGET", "k")
  /\ res.r = Ok(Absent)

\* What C3 says of the reads of key k after a cmdHSET of field f to value v.
HsetThenRead(k, f, v) ==
  /\ Served("cmdHGETALL", k) =>
       /\ res.r.ok
       /\ res.r.val.t = "Some"
       /\ f \in DOMAIN res.r.val.x
       /\ res.r.val.x[f] = v
  /\ Served("get", k) =>
       /\ res.r.ok
       /\ res.r.val.t = "B"
       /\ res.r.val.x = store[k].h
       /\ f \in DOMAIN res.r.val.x
       /\ res.r.val.x[f] = v

Unsupported == {"list", "set"}

\* C6: on a key that holds a list or a set, cmdTYPE returns the type's tag and
\* the generic get ends after its one round trip with "field type unknown";
\* it goes on to a fetch only for a string or a hash; and the status Unknown
\* is no other error's: every other error has status Cancelled.
C6_UnknownType ==
  /\ \A k \in Keys :
       /\ Served("cmdTYPE", k) => res.r = Ok(Plain(store[k].type))
       /\ (Served("get", k) /\ res.trips = 1 /\ store[k].type \in Unsupported) =>
            res.r = FieldTypeUnknown
       /\ Served("get.type", k) =>
            /\ pc = [at |-> "fetch", key |-> k,
                     arm |-> IF store[k].type = "string" THEN "get" ELSE "hgetall"]
            /\ store[k].type \in {"string", "hash"}
  /\ ~res.r.ok =>
       IF res.r.status = "Unknown"
       THEN /\ res.r = FieldTypeUnknown
            /\ res.op = "get" /\ res.trips = 1 /\ res.fault = "none"
            /\ store[res.key].type \in Unsupported
       ELSE res.r.status = "Cancelled" /\ res.r.msg = "Redis Error"

C6_Witness ==
  /\ store["k"].type = "list"
  /\ Served("get", "k")
  /\ res.trips = 1
  /\ res.r = FieldTypeUnknown

\* C7 as stated: a read-like operation returns None only when the server ran
\* the command; a round trip that the server refused with an error reply of
\* any other kind returns an error.
C7_AsStated ==
  (res.op \in Readers /\ res.fault # "none") => ~res.r.ok

\* C8 as stated: cmdHGETALL of a key that does not exist returns None.
C8_AsStated ==
  \A k \in Keys :
    (Served("cmdHGETALL", k) /\ store[k].type = "none") => res.r = Ok(Absent)

\* The generic get makes its second round trip on the string arm, served.
StringFetch == pc.at = "fetch" /\ pc.arm = "get" /\ res'.op = "get" /\ res'.fault = "none"

\* C10 as stated: once TYPE has answered "string", the fetch returns a string,
\* whatever another client did to the key in between.
C10_AsStated ==
  [][StringFetch => (res'.r.ok /\ res'.r.val.t = "A")]_vars

\* C10, amended: once TYPE has answered "string", the fetch returns the string
\* the key holds when the fetch is served, if it still holds one; if another
\* client has deleted the key or put a value of another type there, get fails
\* with a Redis error, and returns neither Null nor a mapping.
C10_StringPath ==
  [][StringFetch =>
       IF store[pc.key].type = "string"
       THEN res'.r = Ok(EitherA(store[pc.key].s))
       ELSE ~res'.r.ok /\ res'.r.status = "Cancelled"]_vars

C10_Witness ==
  /\ Served("get", "k")
  /\ res.trips = 2
  /\ ~res.r.ok
  /\ res.r.category = "type error"
  /\ store["k"].type = "none"

\* C4: when reconnect has returned Ok, whatever the connection held before,
\* the client's connection is open and up; connection_open called next
\* returns true, cmdSET and cmdGET called next return Ok, and the generic get
\* called next does not fail with a Redis error.
C4_AfterReconnect ==
  [][/\ (res'.op = "reconnect" /\ res'.r.ok) => (alive' /\ connOpen')
     /\ (res.op = "reconnect" /\ res.r.ok) =>
          /\ res'.op = "connection_open" => res'.r = Ok(Plain(TRUE))
          /\ res'.op \in {"cmdSET", "cmdGET"} => res'.r.ok
          /\ res'.op \in {"get", "get.type"} => (res'.r.ok \/ res'.r = FieldTypeUnknown)]_vars

C4_Witness ==
  /\ res.op = "reconnect" /\ res.fault = "broken" /\ res.r.ok
  /\ alive /\ connOpen

\* C5: on a client whose connection is broken every command fails with an
\* I/O error, and only new and reconnect bring a connection up or open.
C5_BrokenFails ==
  [][/\ (built /\ ~alive /\ res'.op \in CommandOps) =>
          (~res'.r.ok /\ res'.r.category = "I/O error" /\ ~alive' /\ ~connOpen')
     /\ ((~alive /\ alive') \/ (~connOpen /\ connOpen')) =>
          (res'.op \in {"new", "reconnect"} /\ res'.r.ok)]_vars

C5_Witness ==
  /\ res.op = "cmdHGETALL"
  /\ ~res.r.ok
  /\ res.r.category = "I/O error"
  /\ built /\ ~alive /\ ~connOpen

\* C9 as stated: after a new or a reconnect that failed, every command fails
\* until a reconnect succeeds.
C9_AsStated ==
  [][(connectFailed /\ res'.op \in CommandOps) => ~res'.r.ok]_vars

====
